---- MODULE Spec2Model ----
(***************************************************************************)
(* graft: attribute-to-visual-property mapping (node colours, node sizes,  *)
(* edge text, edge pen widths) and edge extraction, as state machines.     *)
(*                                                                         *)
(* Numbers.  Python ints and floats are modelled by exact rationals        *)
(* [num, den] in lowest terms with den > 0.  den = 0 encodes the IEEE      *)
(* specials that numpy/torch division produces: 0/0 is NaN, +-1/0 is       *)
(* +-Inf.  An attribute element keeps its Python type (float or not),      *)
(* since the colour mappers branch on it.                                  *)
(* Colours.  A colour component c in [0,1] is stored as the integer        *)
(* 255*c (hex2color and the 256-entry colormap table both yield multiples  *)
(* of 1/255); alpha is stored in the same unit.                            *)
(***************************************************************************)
EXTENDS Integers, Sequences, FiniteSets, TLC

VARIABLES
  node_attr,        \* the caller's node_color / node_sizes argument
  num_nodes,        \* number of vertices of the graph handed to the node mappers
  arg_alpha,        \* the alpha argument of map_node_colors, in 1/255
  ret_plot_color,   \* outcome of graph.py _map_vertex_color
  ret_node_color,   \* outcome of map_node.py map_node_colors
  ret_nodes_color,  \* outcome of graph_nodes.py map_vertex_color
  ret_plot_size,    \* outcome of graph.py _map_vertex_size
  ret_node_size,    \* outcome of map_node.py map_node_sizes
  ret_nodes_size,   \* outcome of graph_nodes.py map_vertex_size
  draw_options,     \* the draw_options dict handed to the map_node / map_edge mappers
  graph,            \* the input graph: num_nodes, is_undirected(), edge_index, edge_attr
  set_order,        \* the order in which this run iterates the set of sorted edges
  arg_format,       \* the edge_weight_text_format argument
  arg_scale,        \* the edge_weight_width_scale argument
  ret_extract,      \* outcome of graph_extract.py _extract_graph_components
  ret_set_links,    \* outcome of graph.py _set_links
  gt_graph,         \* the graph_tool graph handed to the map_edge mappers
  ret_edge_text,    \* outcome of map_edge.py map_edge_weight_text
  ret_edge_pen,     \* outcome of map_edge.py map_edge_pen_widths
  node_names,       \* the caller's node_names argument
  ret_set_nodes,    \* outcome of graph.py _set_nodes
  ret_node_names,   \* outcome of map_node.py map_node_names
  ret_nodes_names,  \* outcome of graph_nodes.py map_vertex_names
  ret_links_text,   \* outcome of graph_links.py map_edge_weight_text
  ret_links_pen,    \* outcome of graph_links.py map_edge_pen_widths
  plot_args,        \* the arguments of one call of graph.py plot
  ret_plot          \* outcome of that call, and its arguments after the call

node_vars == <<node_attr, num_nodes, arg_alpha, ret_plot_color, ret_node_color,
               ret_nodes_color, ret_plot_size, ret_node_size, ret_nodes_size>>
edge_vars == <<graph, set_order, arg_format, arg_scale, ret_extract,
               ret_set_links, gt_graph, ret_edge_text, ret_edge_pen>>
name_vars == <<node_names, ret_set_nodes, ret_node_names, ret_nodes_names>>
plot_vars == <<plot_args, ret_plot>>
links_vars == <<ret_links_text, ret_links_pen>>
vars == <<node_vars, edge_vars, draw_options, name_vars, plot_vars, links_vars>>

(***************************************************************************)
(* Bounds of the model.                                                    *)
(***************************************************************************)
\* longest attribute sequence enumerated element by element
MaxLen == 3
\* longest run of consecutive integers (more than 10 distinct values)
MaxRamp == 11

(***************************************************************************)
(* Exact rational arithmetic with IEEE specials.                           *)
(***************************************************************************)
Abs(a) == IF a < 0 THEN -a ELSE a

RECURSIVE GCD(_, _)
GCD(a, b) == IF b = 0 THEN a ELSE GCD(b, a % b)

Sign(n) == IF n > 0 THEN 1 ELSE IF n < 0 THEN -1 ELSE 0

Rat(n, d) ==
  IF d = 0 THEN [num |-> Sign(n), den |-> 0]
  ELSE LET g == GCD(Abs(n), Abs(d))
           s == Sign(d)
       IN  [num |-> s * (n \div g), den |-> (s * d) \div g]

FromInt(n) == [num |-> n, den |-> 1]
NaN == [num |-> 0, den |-> 0]
IsNaN(r) == r.den = 0 /\ r.num = 0
IsInf(r) == r.den = 0 /\ r.num # 0
IsFinite(r) == r.den > 0

RatMul(a, b) == Rat(a.num * b.num, a.den * b.den)
RatAdd(a, b) ==
  IF IsInf(a) /\ IsInf(b) THEN (IF a.num = b.num THEN a ELSE NaN)
  ELSE Rat(a.num * b.den + b.num * a.den, a.den * b.den)
\* IEEE division of finite operands: x/0 is +-Inf, 0/0 is NaN, never an error
RatDiv(a, b) == Rat(a.num * b.den, a.den * b.num)
RatLe(a, b) == a.num * b.den <= b.num * a.den
RatFloor(a) == a.num \div a.den

(***************************************************************************)
(* Sequences of numbers.                                                   *)
(***************************************************************************)
Range(s) == {s[i] : i \in DOMAIN s}
SetMin(S) == CHOOSE x \in S : \A z \in S : x <= z
SetMax(S) == CHOOSE x \in S : \A z \in S : x >= z

RECURSIVE SortedSeq(_)
SortedSeq(S) ==
  IF S = {} THEN <<>> ELSE <<SetMin(S)>> \o SortedSeq(S \ {SetMin(S)})

\* 1-based position of x in a sequence without repetitions
IndexOf(s, x) == CHOOSE i \in DOMAIN s : s[i] = x

\* an optional argument or return value: None, or a sequence
None == [given |-> FALSE, values |-> <<>>]
Some(s) == [given |-> TRUE, values |-> s]

\* np.array / list(...) of a Python list of numbers: one float element makes
\* every element a (numpy) float; the values are unchanged
np_array(seq) ==
  LET anyf == \E i \in DOMAIN seq : seq[i].float
  IN  [i \in DOMAIN seq |-> [float |-> anyf, val |-> seq[i].val]]

\* a variant of torch_tensor that takes the dtype from the first element
torch_tensor_first_dtype(seq) ==
  [is_floating_point |-> seq[1].float,
   data |-> [i \in DOMAIN seq |-> seq[i].val]]

\* torch.tensor of a Python list of numbers: one dtype for the tensor,
\* floating point iff some element is a float
torch_tensor(seq) ==
  [is_floating_point |-> \E i \in DOMAIN seq : seq[i].float,
   data |-> [i \in DOMAIN seq |-> seq[i].val]]

(***************************************************************************)
(* Colours.                                                                *)
(***************************************************************************)
\* colors_dict: the palette for k distinct categories, each entry the six
\* hex digits of its '#RRGGBB' literal (identical in the three files)
ColorsDict ==
  [k \in 1..10 |->
    CASE k = 1 -> <<<<15,8,7,6,6,13>>>>
      [] k = 2 -> <<<<15,8,7,6,6,13>>, <<0,0,11,15,12,4>>>>
      [] k = 3 -> <<<<15,8,7,6,6,13>>, <<0,0,11,10,3,8>>, <<6,1,9,12,15,15>>>>
      [] k = 4 -> <<<<15,8,7,6,6,13>>, <<7,12,10,14,0,0>>, <<0,0,11,15,12,4>>, <<12,7,7,12,15,15>>>>
      [] k = 5 -> <<<<15,8,7,6,6,13>>, <<10,3,10,5,0,0>>, <<0,0,11,15,7,13>>, <<0,0,11,0,15,6>>, <<14,7,6,11,15,3>>>>
      [] k = 6 -> <<<<15,8,7,6,6,13>>, <<11,7,9,15,0,0>>, <<0,0,11,10,3,8>>, <<0,0,11,15,12,4>>, <<6,1,9,12,15,15>>, <<15,5,6,4,14,3>>>>
      [] k = 7 -> <<<<15,8,7,6,6,13>>, <<12,4,9,10,0,0>>, <<5,3,11,4,0,0>>, <<0,0,12,0,9,4>>, <<0,0,11,6,14,11>>, <<10,5,8,10,15,15>>, <<15,11,6,1,13,7>>>>
      [] k = 8 -> <<<<15,8,7,6,6,13>>, <<12,13,9,6,0,0>>, <<7,12,10,14,0,0>>, <<0,0,11,14,6,7>>, <<0,0,11,15,12,4>>, <<0,0,10,9,15,15>>, <<12,7,7,12,15,15>>, <<15,15,6,1,12,12>>>>
      [] k = 9 -> <<<<15,8,7,6,6,13>>, <<13,3,9,2,0,0>>, <<9,3,10,10,0,0>>, <<0,0,11,10,3,8>>, <<0,0,12,1,9,15>>, <<0,0,11,9,14,3>>, <<6,1,9,12,15,15>>, <<13,11,7,2,15,11>>, <<15,15,6,1,12,3>>>>
      [] k = 10 -> <<<<15,8,7,6,6,13>>, <<10,3,10,5,0,0>>, <<3,9,11,6,0,0>>, <<0,0,11,15,7,13>>, <<0,0,11,15,12,4>>, <<0,0,11,0,15,6>>, <<9,5,9,0,15,15>>, <<14,7,6,11,15,3>>, <<15,15,6,2,11,12>>, <<13,8,9,0,0,0>>>>]

\* mpl.colors.hex2color: '#RRGGBB' to (R/255, G/255, B/255)
hex2color(h) == <<16 * h[1] + h[2], 16 * h[3] + h[4], 16 * h[5] + h[6]>>

\* hex_to_rgb_normalized of map_node.py: list(rgb) + [alpha]
hex_to_rgb_normalized_alpha(hex_color, alpha) == hex2color(hex_color) \o <<alpha>>
\* hex_to_rgb_normalized of graph.py and graph_nodes.py: the three rgb values
hex_to_rgb_normalized(hex_color) == hex2color(hex_color)

\* mpl.cm.get_cmap('spring') applied to a float x: the 256-entry table
\* (1, i/255, 1 - i/255, 1) read at i = int(x * 256), x = 1.0 reading the
\* last entry; a NaN reads the "bad" colour (0, 0, 0, 0)
colormap(x) ==
  IF ~IsFinite(x) THEN <<0, 0, 0, 0>>
  ELSE LET scaled == RatFloor(RatMul(x, FromInt(256)))
           i == IF scaled >= 256 THEN 255 ELSE IF scaled < 0 THEN 0 ELSE scaled
       IN  <<255, i, 255 - i, 255>>

(***************************************************************************)
(* Normalisation, as written at each use.                                  *)
(***************************************************************************)
\* (value - y_min) / (y_max - y_min) on Python numbers (graph.py, after
\* .item()): defined only when y_max # y_min, else ZeroDivisionError
normalized_value_py(value, y_min, y_max) ==
  Rat(value - y_min, y_max - y_min)
raises_ZeroDivisionError(y_min, y_max) == y_max - y_min = 0

\* a variant of normalized_value_np that divides by y_max
normalized_value_np_by_max(value, y_min, y_max) ==
  RatDiv(FromInt(value - y_min), FromInt(y_max))

\* (value - y_min) / (y_max - y_min) on numpy scalars (map_node.py, after
\* list(np.array(...))): IEEE division, 0/0 is NaN with a RuntimeWarning
normalized_value_np(value, y_min, y_max) ==
  RatDiv(FromInt(value - y_min), FromInt(y_max - y_min))

\* size = min_size + normalized_value * (max_size - min_size)
size_of(normalized_value, min_size, max_size) ==
  RatAdd(FromInt(min_size), RatMul(normalized_value, FromInt(max_size - min_size)))

\* range of vertex sizes of graph.py _map_vertex_size
plot_min_size == 5
plot_max_size == 20
\* range of vertex sizes of map_node.py map_node_sizes
node_min_size == 10
node_max_size == 50
\* range of vertex sizes of graph_nodes.py map_vertex_size
nodes_min_size == 10
nodes_max_size == 50

(***************************************************************************)
(* Continuous or categorical.                                              *)
(***************************************************************************)
\* y.is_floating_point() or len(y.unique()) > 10                (graph.py)
is_continuous_torch(y) ==
  y.is_floating_point \/ Cardinality(Range(y.data)) > 10

\* a variant of is_continuous_list with the threshold off by one
is_continuous_list_over_11(y) ==
  (\E i \in DOMAIN y : y[i].float) \/ Cardinality({y[i].val : i \in DOMAIN y}) > 11

\* any(isinstance(element, float) for element in y) or len(set(y)) > 10
\*                                              (map_node.py, graph_nodes.py)
is_continuous_list(y) ==
  (\E i \in DOMAIN y : y[i].float) \/ Cardinality({y[i].val : i \in DOMAIN y}) > 10

(***************************************************************************)
(* Outcome of one mapper call.  called: the call was made; returned: it    *)
(* returned (no exception); err: the exception raised, if any; path: the   *)
(* branch taken; normalized: the normalized_value computed per element;    *)
(* prop: the property map as left by the call (None when none was          *)
(* returned or created), one entry per index written.                      *)
(***************************************************************************)
NotCalled ==
  [called |-> FALSE, returned |-> FALSE, err |-> "", path |-> "",
   normalized |-> <<>>, prop |-> None]
Returned(path, normalized, prop) ==
  [called |-> TRUE, returned |-> TRUE, err |-> "", path |-> path,
   normalized |-> normalized, prop |-> prop]
Raised(err, path, normalized, prop) ==
  [called |-> TRUE, returned |-> FALSE, err |-> err, path |-> path,
   normalized |-> normalized, prop |-> prop]

\* the first n entries of a sequence
Take(s, n) == [i \in 1..n |-> s[i]]
Min2(a, b) == IF a <= b THEN a ELSE b

(***************************************************************************)
(* graph.py: _map_vertex_color(gt_graph, vertices, node_color).            *)
(* vertices is the list built by _set_nodes, given by its length; the      *)
(* write v_color[vertices[idx]] raises IndexError at idx = len(vertices).  *)
(***************************************************************************)
_map_vertex_color(vertices, node_color) ==
  IF ~node_color.given THEN Returned("none", <<>>, None)
  ELSE
    LET y == torch_tensor(node_color.values)
        n == Len(y.data)
        unique == Range(y.data)
        m == Min2(n, vertices)
    IN
    IF is_continuous_torch(y)
    THEN
      LET y_min == SetMin(unique)
          y_max == SetMax(unique)
          norm == [idx \in 1..n |-> normalized_value_py(y.data[idx], y_min, y_max)]
          rgba == [idx \in 1..n |-> colormap(norm[idx])]
      IN  IF raises_ZeroDivisionError(y_min, y_max)
          THEN Raised("ZeroDivisionError", "continuous", <<>>, Some(<<>>))
          ELSE IF n > vertices
          THEN Raised("IndexError", "continuous", Take(norm, m + 1), Some(Take(rgba, m)))
          ELSE Returned("continuous", norm, Some(rgba))
    ELSE
      LET ggplot_colors == ColorsDict[Cardinality(unique)]
          ggplot_colors_rgb ==
            [i \in DOMAIN ggplot_colors |-> hex_to_rgb_normalized(ggplot_colors[i])]
          unique_y == SortedSeq(unique)
          \* {int(val): ggplot_colors_rgb[i % len] for i, val in enumerate(unique_y)}
          y_to_color ==
            [val \in unique |->
               ggplot_colors_rgb[((IndexOf(unique_y, val) - 1) % Len(ggplot_colors_rgb)) + 1]]
          rgb == [idx \in 1..n |-> y_to_color[y.data[idx]]]
      IN  IF Cardinality(unique) \notin DOMAIN ColorsDict
          THEN Raised("KeyError", "categorical", <<>>, Some(<<>>))
          ELSE IF n > vertices
          THEN Raised("IndexError", "categorical", <<>>, Some(Take(rgb, m)))
          ELSE Returned("categorical", <<>>, Some(rgb))

(***************************************************************************)
(* map_node.py: map_node_colors(gt_graph, draw_options, node_colors,       *)
(* alpha).  The property map is written by integer index.                  *)
(***************************************************************************)
\* ggplot_colors_rgb[val]: Python list indexing by the raw value; a negative
\* index counts from the end, an index outside -len..len-1 raises IndexError
list_index_ok(len, val) == -len <= val /\ val < len
list_index(len, val) == IF val >= 0 THEN val + 1 ELSE len + val + 1

map_node_colors(node_colors, alpha) ==
  IF ~node_colors.given THEN Returned("none", <<>>, None)
  ELSE
    LET y == np_array(node_colors.values)
        n == Len(y)
        unique == {y[i].val : i \in DOMAIN y}
    IN
    IF is_continuous_list(y)
    THEN
      LET y_min == SetMin(unique)
          y_max == SetMax(unique)
          norm == [idx \in 1..n |-> normalized_value_np(y[idx].val, y_min, y_max)]
          \* rgba = list(colormap(normalized_value)); rgba[-1] = alpha
          rgba == [idx \in 1..n |-> [colormap(norm[idx]) EXCEPT ![4] = alpha]]
      IN  Returned("continuous", norm, Some(rgba))
    ELSE
      LET k == Cardinality(unique)
          ggplot_colors == ColorsDict[k]
          ggplot_colors_rgb ==
            [i \in DOMAIN ggplot_colors |->
               hex_to_rgb_normalized_alpha(ggplot_colors[i], alpha)]
          \* {int(val): ggplot_colors_rgb[val] for val in unique_y}
          y_to_color == [val \in unique |-> ggplot_colors_rgb[list_index(k, val)]]
      IN  IF k \notin DOMAIN ColorsDict
          THEN Raised("KeyError", "categorical", <<>>, Some(<<>>))
          ELSE IF \E val \in unique : ~list_index_ok(k, val)
          THEN Raised("IndexError", "categorical", <<>>, Some(<<>>))
          ELSE Returned("categorical", <<>>, Some([idx \in 1..n |-> y_to_color[y[idx].val]]))

(***************************************************************************)
(* graph_nodes.py: map_vertex_color(gt_graph, vertices, node_colors).      *)
(* Both branches raise TypeError before any vertex is written:             *)
(* enumerate(v_color, y) has a list as its start argument, and             *)
(* int(val) is applied to the (rank, value) pairs of enumerate(unique_y).  *)
(***************************************************************************)
map_vertex_color(vertices, node_colors) ==
  IF ~node_colors.given THEN Returned("none", <<>>, None)
  ELSE
    LET y == node_colors.values
        unique == {y[i].val : i \in DOMAIN y}
    IN
    IF is_continuous_list(y)
    THEN Raised("TypeError", "continuous", <<>>, Some(<<>>))
    ELSE Raised("TypeError", "categorical", <<>>, Some(<<>>))

(***************************************************************************)
(* The size mappers.                                                       *)
(***************************************************************************)
\* graph.py: _map_vertex_size(gt_graph, vertices, node_size)
_map_vertex_size(vertices, node_size) ==
  IF ~node_size.given THEN Returned("none", <<>>, None)
  ELSE
    LET y == torch_tensor(node_size.values)
        n == Len(y.data)
        m == Min2(n, vertices)
        y_min == SetMin(Range(y.data))
        y_max == SetMax(Range(y.data))
        norm == [idx \in 1..n |-> normalized_value_py(y.data[idx], y_min, y_max)]
        size == [idx \in 1..n |-> size_of(norm[idx], plot_min_size, plot_max_size)]
    IN  IF raises_ZeroDivisionError(y_min, y_max)
        THEN Raised("ZeroDivisionError", "size", <<>>, Some(<<>>))
        ELSE IF n > vertices
        THEN Raised("IndexError", "size", Take(norm, m + 1), Some(Take(size, m)))
        ELSE Returned("size", norm, Some(size))

\* map_node.py: map_node_sizes(gt_graph, draw_options, node_sizes)
map_node_sizes(node_sizes) ==
  IF ~node_sizes.given THEN Returned("none", <<>>, None)
  ELSE
    LET y == np_array(node_sizes.values)
        n == Len(y)
        unique == {y[i].val : i \in DOMAIN y}
        y_min == SetMin(unique)
        y_max == SetMax(unique)
        norm == [idx \in 1..n |-> normalized_value_np(y[idx].val, y_min, y_max)]
        size == [idx \in 1..n |-> size_of(norm[idx], node_min_size, node_max_size)]
    IN  Returned("size", norm, Some(size))

\* graph_nodes.py: map_vertex_size(gt_graph, vertices, node_sizes).  The
\* module imports only matplotlib, so torch.tensor(node_sizes) raises NameError
map_vertex_size(vertices, node_sizes) ==
  IF ~node_sizes.given THEN Returned("none", <<>>, None)
  ELSE Raised("NameError", "size", <<>>, None)

(***************************************************************************)
(* Edges and weights.  An edge is a pair <<start, end>> of node indices    *)
(* (0-based, as in edge_index); a weight is a rational.                    *)
(***************************************************************************)
\* tuple(sorted(edge))
sorted_edge(edge) == IF edge[1] <= edge[2] THEN edge ELSE <<edge[2], edge[1]>>

\* set(tuple(sorted(edge)) for edge in graph.edge_index.t().tolist())
unique_edges(edge_index) == {sorted_edge(edge_index[i]) : i \in DOMAIN edge_index}

\* torch.ones(n)
torch_ones(n) == [i \in 1..n |-> FromInt(1)]

\* weights.max()
tensor_max(weights) ==
  CHOOSE m \in Range(weights) : \A w \in Range(weights) : RatLe(w, m)

\* a variant of weights_of that substitutes one weight per edge of edge_index,
\* not per extracted link
weights_of_edge_index(g, links) ==
  IF g.edge_attr.given THEN g.edge_attr.values ELSE torch_ones(Len(g.edge_index))

\* torch.tensor(graph.edge_attr) if graph.edge_attr is not None
\*   else torch.ones(links.size(1))
weights_of(g, links) ==
  IF g.edge_attr.given THEN g.edge_attr.values ELSE torch_ones(Len(links))

\* graph_extract.py: _extract_graph_components(graph); order is the order in
\* which list(unique_edges) iterates the set
_extract_graph_components(g, order) ==
  LET links == IF g.undirected THEN g.edge_index ELSE order
  IN  [called |-> TRUE, links |-> links, weights |-> weights_of(g, links),
       num_nodes |-> g.num_nodes]

\* map_edge.py: the links of map_edge_weight_text and map_edge_pen_widths
map_edge_links(g, order) ==
  IF ~g.undirected THEN g.edge_index ELSE order

(***************************************************************************)
(* format(x, ".<d>f"): x rounded to d decimals, ties to even (x is exactly *)
(* representable), written with d digits after the point.                  *)
(***************************************************************************)
Decimals(text_format) ==
  CASE text_format = ".2f" -> 2 [] text_format = ".1f" -> 1 [] text_format = ".0f" -> 0

RECURSIVE Pow10(_)
Pow10(d) == IF d = 0 THEN 1 ELSE 10 * Pow10(d - 1)

RoundHalfEven(x) ==
  LET q == RatFloor(x)
      twice_rem == 2 * (x.num - q * x.den)
  IN  IF twice_rem > x.den THEN q + 1
      ELSE IF twice_rem < x.den THEN q
      ELSE IF q % 2 = 0 THEN q ELSE q + 1

RECURSIVE Digits(_, _)
Digits(n, width) ==
  IF width = 0 THEN "" ELSE Digits(n \div 10, width - 1) \o ToString(n % 10)

format(x, text_format) ==
  LET d == Decimals(text_format)
      h == RoundHalfEven(RatMul(x, FromInt(Pow10(d))))
      a == Abs(h)
  IN  (IF x.num < 0 THEN "-" ELSE "")
        \o ToString(a \div Pow10(d))
        \o (IF d = 0 THEN "" ELSE "." \o Digits(a % Pow10(d), d))

\* a variant of pen_width that divides by the first weight, not the maximum
pen_width_by_first(weights, idx, edge_weight_width_scale) ==
  RatMul(RatDiv(weights[idx], weights[1]), FromInt(edge_weight_width_scale))

\* (weights / weights.max())[idx].item() * edge_weight_width_scale: tensor
\* division follows IEEE, so a zero maximum gives NaN or Inf, not an error
pen_width(weights, idx, edge_weight_width_scale) ==
  RatMul(RatDiv(weights[idx], tensor_max(weights)), FromInt(edge_weight_width_scale))

(***************************************************************************)
(* The loop "for idx, (start, end) in enumerate(links)" shared by          *)
(* _set_links and the map_edge mappers: vertices[start] / vertices[end]    *)
(* raise IndexError before the edge is added, weights[idx] raises it after *)
(* the edge is added and before its property is written.                   *)
(***************************************************************************)
bad_vertex(vertices, edge) == edge[1] >= vertices \/ edge[2] >= vertices
loop_failures(vertices, links, weights) ==
  {i \in DOMAIN links : bad_vertex(vertices, links[i]) \/ i > Len(weights)}
\* number of edges added, and of edges whose property was written
edges_added(vertices, links, weights) ==
  LET f == loop_failures(vertices, links, weights)
  IN  IF f = {} THEN Len(links)
      ELSE IF bad_vertex(vertices, links[SetMin(f)]) THEN SetMin(f) - 1 ELSE SetMin(f)
edges_written(vertices, links, weights) ==
  LET f == loop_failures(vertices, links, weights)
  IN  IF f = {} THEN Len(links) ELSE SetMin(f) - 1

NoLinks ==
  [called |-> FALSE, returned |-> FALSE, err |-> "", edges |-> <<>>,
   e_weight |-> <<>>, e_pen_width |-> <<>>]

\* graph.py: _set_links(gt_graph, vertices, links, weights,
\* edge_weight_text_format, edge_weight_width_scale) on a graph without edges
_set_links(vertices, links, weights, edge_weight_text_format, edge_weight_width_scale) ==
  LET added == edges_added(vertices, links, weights)
      written == edges_written(vertices, links, weights)
  IN  [called |-> TRUE,
       returned |-> written = Len(links),
       err |-> IF written = Len(links) THEN "" ELSE "IndexError",
       edges |-> [e \in 1..added |-> links[e]],
       e_weight |-> [e \in 1..written |-> format(weights[e], edge_weight_text_format)],
       e_pen_width |-> [e \in 1..written |-> pen_width(weights, e, edge_weight_width_scale)]]

NoEdgeMap ==
  [called |-> FALSE, returned |-> FALSE, err |-> "", links |-> <<>>,
   weights |-> <<>>, prop |-> None]

\* one edge property map after the loop: the edges the graph had before the
\* call keep the default value, the edges this call added hold their value
edge_prop(gt, values, default) ==
  [e \in 1..(Len(gt.edges) + Len(values)) |->
     IF e <= Len(gt.edges) THEN default ELSE values[e - Len(gt.edges)]]

\* map_edge.py: map_edge_weight_text(gt_graph, draw_options, edge_weight_text_format)
map_edge_weight_text(gt, order, edge_weight_text_format) ==
  LET links == map_edge_links(gt.data, order)
      weights == weights_of(gt.data, links)
      written == edges_written(gt.num_vertices, links, weights)
      text == [idx \in 1..written |-> format(weights[idx], edge_weight_text_format)]
  IN  [called |-> TRUE,
       returned |-> written = Len(links),
       err |-> IF written = Len(links) THEN "" ELSE "IndexError",
       links |-> links, weights |-> weights,
       prop |-> Some(edge_prop(gt, text, ""))]

\* map_edge.py: map_edge_pen_widths(gt_graph, draw_options, edge_weight_width_scale)
map_edge_pen_widths(gt, order, edge_weight_width_scale) ==
  LET links == map_edge_links(gt.data, order)
      weights == weights_of(gt.data, links)
      written == edges_written(gt.num_vertices, links, weights)
      width == [idx \in 1..written |-> pen_width(weights, idx, edge_weight_width_scale)]
  IN  [called |-> TRUE,
       returned |-> written = Len(links),
       err |-> IF written = Len(links) THEN "" ELSE "IndexError",
       links |-> links, weights |-> weights,
       prop |-> Some(edge_prop(gt, width, FromInt(0)))]

\* graph_links.py: map_edge_weight_text(gt_graph, draw_options,
\* edge_weight_text_format).  Both branches of "if gt_graph.is_directed()"
\* read graph.edge_index, and the module defines no name graph: NameError
\* before any edge is added
graph_links_map_edge_weight_text(gt, order, edge_weight_text_format) ==
  [called |-> TRUE, returned |-> FALSE, err |-> "NameError", links |-> <<>>,
   weights |-> <<>>, prop |-> Some(edge_prop(gt, <<>>, ""))]

\* graph_links.py: map_edge_pen_widths(gt_graph, draw_options,
\* edge_weight_width_scale): NameError in the same place
graph_links_map_edge_pen_widths(gt, order, edge_weight_width_scale) ==
  [called |-> TRUE, returned |-> FALSE, err |-> "NameError", links |-> <<>>,
   weights |-> <<>>, prop |-> Some(edge_prop(gt, <<>>, FromInt(0)))]

\* the graph_tool graph after either map_edge mapper: every link is added
\* again by gt_graph.add_edge
add_edges(gt, order) ==
  LET links == map_edge_links(gt.data, order)
      added == edges_added(gt.num_vertices, links, weights_of(gt.data, links))
  IN  [gt EXCEPT !.edges = gt.edges \o [e \in 1..added |-> links[e]]]

(***************************************************************************)
(* The name mappers.  A vertex property map is written by integer index;   *)
(* graph_tool stores it in a vector that grows to hold the index written,  *)
(* so a write needs no vertex to exist, and a vertex that was never        *)
(* written reads the default "".  prop holds what the vertices of the      *)
(* graph read after the call, written the number of assignments made,      *)
(* present the number of vertices the graph had when they were made.       *)
(***************************************************************************)
\* a name mapper that has not been called
NoNames ==
  [called |-> FALSE, returned |-> FALSE, err |-> "", vertices |-> 0,
   written |-> 0, present |-> 0, prop |-> None]

\* the string property map of a graph with that many vertices after
\* "v_text[idx] = name" for the first written names
text_prop(vertices, names, written) ==
  [v \in 1..vertices |-> IF v <= written THEN names[v] ELSE ""]

\* graph.py: _set_nodes(gt_graph, num_nodes, node_names); "if node_names:"
\* is false for None and for the empty list; the names are written before
\* the vertices are added
_set_nodes(nodes, names) ==
  [called |-> TRUE, returned |-> TRUE, err |-> "", vertices |-> nodes,
   written |-> IF names.given THEN Len(names.values) ELSE 0,
   present |-> 0,
   prop |-> IF names.given /\ Len(names.values) > 0
            THEN Some(text_prop(nodes, names.values, Len(names.values)))
            ELSE None]

\* map_node.py: map_node_names(gt_graph, draw_options, node_names)
map_node_names(nodes, names) ==
  [called |-> TRUE, returned |-> TRUE, err |-> "", vertices |-> nodes,
   written |-> IF names.given THEN Len(names.values) ELSE 0,
   present |-> nodes,
   prop |-> IF names.given
            THEN Some(text_prop(nodes, names.values, Len(names.values)))
            ELSE None]

\* graph_nodes.py: map_vertex_names(gt_graph, vertices, node_names);
\* zip(vertices, node_names) stops at the shorter of the two
map_vertex_names(nodes, names) ==
  [called |-> TRUE, returned |-> TRUE, err |-> "", vertices |-> nodes,
   written |-> IF names.given THEN Min2(nodes, Len(names.values)) ELSE 0,
   present |-> nodes,
   prop |-> IF names.given
            THEN Some(text_prop(nodes, names.values, Min2(nodes, Len(names.values))))
            ELSE None]

(***************************************************************************)
(* Values of the variables a specification does not use.                   *)
(***************************************************************************)
NoGraph ==
  [num_nodes |-> 0, undirected |-> FALSE, edge_index |-> <<>>, edge_attr |-> None]
NoExtract == [called |-> FALSE, links |-> <<>>, weights |-> <<>>, num_nodes |-> 0]
IdleEdge ==
  /\ graph = NoGraph
  /\ set_order = <<>>
  /\ arg_format = ".2f"
  /\ arg_scale = 1
  /\ ret_extract = NoExtract
  /\ ret_set_links = NoLinks
  /\ gt_graph = [data |-> NoGraph, num_vertices |-> 0, edges |-> <<>>]
  /\ ret_edge_text = NoEdgeMap
  /\ ret_edge_pen = NoEdgeMap
IdleNode ==
  /\ node_attr = None
  /\ num_nodes = 0
  /\ arg_alpha = 255
  /\ ret_plot_color = NotCalled
  /\ ret_node_color = NotCalled
  /\ ret_nodes_color = NotCalled
  /\ ret_plot_size = NotCalled
  /\ ret_node_size = NotCalled
  /\ ret_nodes_size = NotCalled

IdleNames ==
  /\ node_names = None
  /\ ret_set_nodes = NoNames
  /\ ret_node_names = NoNames
  /\ ret_nodes_names = NoNames
IdlePlot ==
  /\ plot_args = <<>>
  /\ ret_plot = <<>>
  /\ ret_links_text = NoEdgeMap
  /\ ret_links_pen = NoEdgeMap

(***************************************************************************)
(* Inputs of the node mappers.                                             *)
(***************************************************************************)
\* values of Python int elements, and of Python float elements
IntVals == {-2, 0, 1, 5, 7, 10}
FloatVals == {0, 10}
Elements ==
  {[float |-> FALSE, val |-> v] : v \in IntVals}
    \cup {[float |-> TRUE, val |-> v] : v \in FloatVals}
\* runs of consecutive ints: 10 distinct values and more
Ramps ==
  {[i \in 1..n |-> [float |-> FALSE, val |-> s + i - 1]] :
     n \in 10..MaxRamp, s \in {-1, 0}}
NodeSeqs == UNION {[1..n -> Elements] : n \in 1..MaxLen} \cup Ramps
\* alpha = 1.0 (the default) and alpha = 0.4
Alphas == {255, 102}

InitNode ==
  /\ node_attr \in {None} \cup {Some(s) : s \in NodeSeqs}
  /\ num_nodes = IF node_attr.given THEN Len(node_attr.values) ELSE MaxLen
  /\ arg_alpha \in Alphas
  /\ ret_plot_color = NotCalled
  /\ ret_node_color = NotCalled
  /\ ret_nodes_color = NotCalled
  /\ ret_plot_size = NotCalled
  /\ ret_node_size = NotCalled
  /\ ret_nodes_size = NotCalled
  /\ draw_options = <<>>
  /\ IdleEdge
  /\ IdleNames
  /\ IdlePlot

\* a variant of SetOption that starts a new dict holding only its key
SetOption_alone(options, key, r) ==
  IF r.returned /\ r.prop.given THEN (key :> r.prop.values) ELSE options

\* draw_options[key] = value when the mapper got that far
SetOption(options, key, r) ==
  IF r.returned /\ r.prop.given THEN (key :> r.prop.values) @@ options ELSE options

\* plot step 5: v_color, gt_graph = _map_vertex_color(gt_graph, vertices, node_color)
MapVertexColorPlot ==
  /\ ~ret_plot_color.called
  /\ ret_plot_color' = _map_vertex_color(num_nodes, node_attr)
  /\ UNCHANGED <<links_vars, edge_vars, name_vars, plot_vars, node_attr, num_nodes, arg_alpha, ret_node_color, ret_nodes_color,
                 ret_plot_size, ret_node_size, ret_nodes_size, draw_options>>

\* map_node.map_node_colors(gt_graph, draw_options, node_colors, alpha)
MapNodeColors ==
  /\ ~ret_node_color.called
  /\ ret_node_color' = map_node_colors(node_attr, arg_alpha)
  /\ draw_options' = SetOption(draw_options, "vertex_fill_color", ret_node_color')
  /\ UNCHANGED <<links_vars, edge_vars, name_vars, plot_vars, node_attr, num_nodes, arg_alpha, ret_plot_color, ret_nodes_color,
                 ret_plot_size, ret_node_size, ret_nodes_size>>

\* graph_nodes.map_vertex_color(gt_graph, vertices, node_colors)
MapVertexColor ==
  /\ ~ret_nodes_color.called
  /\ ret_nodes_color' = map_vertex_color(num_nodes, node_attr)
  /\ UNCHANGED <<links_vars, edge_vars, name_vars, plot_vars, node_attr, num_nodes, arg_alpha, ret_plot_color, ret_node_color,
                 ret_plot_size, ret_node_size, ret_nodes_size, draw_options>>

\* plot step 5: v_size, gt_graph = _map_vertex_size(gt_graph, vertices, node_size)
MapVertexSizePlot ==
  /\ ~ret_plot_size.called
  /\ ret_plot_size' = _map_vertex_size(num_nodes, node_attr)
  /\ UNCHANGED <<links_vars, edge_vars, name_vars, plot_vars, node_attr, num_nodes, arg_alpha, ret_plot_color, ret_node_color,
                 ret_nodes_color, ret_node_size, ret_nodes_size, draw_options>>

\* map_node.map_node_sizes(gt_graph, draw_options, node_sizes)
MapNodeSizes ==
  /\ ~ret_node_size.called
  /\ ret_node_size' = map_node_sizes(node_attr)
  /\ draw_options' = SetOption(draw_options, "vertex_size", ret_node_size')
  /\ UNCHANGED <<links_vars, edge_vars, name_vars, plot_vars, node_attr, num_nodes, arg_alpha, ret_plot_color, ret_node_color,
                 ret_nodes_color, ret_plot_size, ret_nodes_size>>

\* graph_nodes.map_vertex_size(gt_graph, vertices, node_sizes)
MapVertexSize ==
  /\ ~ret_nodes_size.called
  /\ ret_nodes_size' = map_vertex_size(num_nodes, node_attr)
  /\ UNCHANGED <<links_vars, edge_vars, name_vars, plot_vars, node_attr, num_nodes, arg_alpha, ret_plot_color, ret_node_color,
                 ret_nodes_color, ret_plot_size, ret_node_size, draw_options>>

NextColor == MapVertexColorPlot \/ MapNodeColors \/ MapVertexColor
NextSize == MapVertexSizePlot \/ MapNodeSizes \/ MapVertexSize

\* the colour mappers applied to one attribute sequence
SpecColor == InitNode /\ [][NextColor]_vars
\* the size mappers applied to one attribute sequence
SpecSize == InitNode /\ [][NextSize]_vars

\* the four mappers that normalize, applied to one attribute sequence in any
\* order
NextNormalize ==
  MapVertexColorPlot \/ MapNodeColors \/ MapVertexSizePlot \/ MapNodeSizes
SpecNormalize == InitNode /\ [][NextNormalize]_vars

(***************************************************************************)
(* Inputs of edge extraction and of the edge mappers.                      *)
(***************************************************************************)
\* most edges in an edge_index
MaxEdges == 3
\* node indices of the input graphs
Nodes == {0, 1, 2}
Pairs == {<<a, b>> : a, b \in Nodes} \ {<<a, a>> : a \in Nodes}
EdgeLists == UNION {[1..n -> Pairs] : n \in 1..MaxEdges}
\* edge weights: 0, 1/8 (a rounding tie at two decimals), 1, 2 and 4
WeightVals == {Rat(0, 1), Rat(1, 8), Rat(1, 1), Rat(2, 1), Rat(4, 1)}
\* edge i carries weight i, so that a weight identifies its edge
index_weights(n) == [i \in 1..n |-> FromInt(i)]
\* a cycle through the nodes: edge i goes from node i-1 to node i
cycle_edges(n) ==
  [i \in 1..n |-> <<(i - 1) % Cardinality(Nodes), i % Cardinality(Nodes)>>]

\* every edge list, without weights or with the weight naming the edge
StructGraphs ==
  {[num_nodes |-> Cardinality(Nodes), undirected |-> u, edge_index |-> ei, edge_attr |-> ea] :
     u \in BOOLEAN, ei \in EdgeLists, ea \in {None}} \cup
  {[num_nodes |-> Cardinality(Nodes), undirected |-> u, edge_index |-> ei,
    edge_attr |-> Some(index_weights(Len(ei)))] : u \in BOOLEAN, ei \in EdgeLists}
\* every weight list, on a cycle
WeightGraphs ==
  UNION {{[num_nodes |-> Cardinality(Nodes), undirected |-> u,
           edge_index |-> cycle_edges(n), edge_attr |-> Some(w)] :
            u \in BOOLEAN, w \in [1..n -> WeightVals]} : n \in 1..MaxEdges}

\* the orders in which a set can be iterated
Orders(S) ==
  {p \in [1..Cardinality(S) -> S] : \A i, j \in 1..Cardinality(S) : p[i] = p[j] => i = j}

Formats == {".2f", ".1f"}
Scales == {1, 5}

InitEdge ==
  /\ \/ /\ graph \in StructGraphs
        /\ set_order \in Orders(unique_edges(graph.edge_index))
        /\ arg_format = ".2f"
        /\ arg_scale \in (IF graph.edge_attr.given THEN {1} ELSE Scales)
     \/ /\ graph \in WeightGraphs
        /\ set_order \in Orders(unique_edges(graph.edge_index))
        /\ \A i \in DOMAIN set_order : set_order[i] = sorted_edge(graph.edge_index[i])
        /\ arg_format \in Formats
        /\ arg_scale \in Scales
  /\ ret_extract = NoExtract
  /\ ret_set_links = NoLinks
  /\ gt_graph = [data |-> graph, num_vertices |-> graph.num_nodes, edges |-> <<>>]
  /\ ret_edge_text = NoEdgeMap
  /\ ret_edge_pen = NoEdgeMap
  /\ draw_options = <<>>
  /\ IdleNode
  /\ IdleNames
  /\ IdlePlot

\* plot: links, weights, num_nodes, x, y = _extract_graph_components(graph)
ExtractGraphComponents ==
  /\ ~ret_extract.called
  /\ ret_extract' = _extract_graph_components(graph, set_order)
  /\ UNCHANGED <<links_vars, node_vars, name_vars, plot_vars, draw_options, graph, set_order, arg_format, arg_scale,
                 ret_set_links, gt_graph, ret_edge_text, ret_edge_pen>>

\* plot step 6: _set_links on the vertices of _set_nodes and the extracted
\* links and weights
SetLinks ==
  /\ ret_extract.called
  /\ ~ret_set_links.called
  /\ ret_set_links' = _set_links(ret_extract.num_nodes, ret_extract.links,
                                 ret_extract.weights, arg_format, arg_scale)
  /\ UNCHANGED <<links_vars, node_vars, name_vars, plot_vars, draw_options, graph, set_order, arg_format, arg_scale,
                 ret_extract, gt_graph, ret_edge_text, ret_edge_pen>>

\* map_edge.map_edge_weight_text(gt_graph, draw_options, edge_weight_text_format)
MapEdgeWeightText ==
  /\ ~ret_edge_text.called
  /\ ret_edge_text' = map_edge_weight_text(gt_graph, set_order, arg_format)
  /\ gt_graph' = add_edges(gt_graph, set_order)
  /\ draw_options' = SetOption(draw_options, "edge_text", ret_edge_text')
  /\ UNCHANGED <<links_vars, node_vars, name_vars, plot_vars, graph, set_order, arg_format, arg_scale,
                 ret_extract, ret_set_links, ret_edge_pen>>

\* map_edge.map_edge_pen_widths(gt_graph, draw_options, edge_weight_width_scale)
MapEdgePenWidths ==
  /\ ~ret_edge_pen.called
  /\ ret_edge_pen' = map_edge_pen_widths(gt_graph, set_order, arg_scale)
  /\ gt_graph' = add_edges(gt_graph, set_order)
  /\ draw_options' = SetOption(draw_options, "edge_pen_width", ret_edge_pen')
  /\ UNCHANGED <<links_vars, node_vars, name_vars, plot_vars, graph, set_order, arg_format, arg_scale,
                 ret_extract, ret_set_links, ret_edge_text>>

NextEdge ==
  ExtractGraphComponents \/ SetLinks \/ MapEdgeWeightText \/ MapEdgePenWidths
\* edge extraction and the edge mappers applied to one input graph
SpecEdge == InitEdge /\ [][NextEdge]_vars

(***************************************************************************)
(* Attribute sequences whose length may differ from the node count.        *)
(***************************************************************************)
\* the name of node i
name_of(i) == "n" \o ToString(i)
\* None, the empty list, and the lists of 1 .. MaxLen + 1 names
NameArgs == {None} \cup {Some([i \in 1..n |-> name_of(i)]) : n \in 0..(MaxLen + 1)}
\* per length one sequence of ints (two categories) and one of floats
ShapeSeqs ==
  {[i \in 1..n |-> [float |-> f, val |-> IF f THEN 5 * (i % 3) ELSE i % 2]] :
     n \in 1..(MaxLen + 1), f \in BOOLEAN}

InitShape ==
  /\ node_attr \in {None} \cup {Some(y) : y \in ShapeSeqs}
  /\ node_names \in NameArgs
  /\ num_nodes \in 1..MaxLen
  /\ arg_alpha = 255
  /\ ret_plot_color = NotCalled
  /\ ret_node_color = NotCalled
  /\ ret_nodes_color = NotCalled
  /\ ret_plot_size = NotCalled
  /\ ret_node_size = NotCalled
  /\ ret_nodes_size = NotCalled
  /\ ret_set_nodes = NoNames
  /\ ret_node_names = NoNames
  /\ ret_nodes_names = NoNames
  /\ draw_options = <<>>
  /\ IdleEdge
  /\ IdlePlot

\* plot step 4: vertices, v_text_prop, gt_graph = _set_nodes(gt_graph, num_nodes, node_names)
SetNodes ==
  /\ ~ret_set_nodes.called
  /\ ret_set_nodes' = _set_nodes(num_nodes, node_names)
  /\ UNCHANGED <<links_vars, node_vars, edge_vars, plot_vars, draw_options, node_names,
                 ret_node_names, ret_nodes_names>>

\* map_node.map_node_names(gt_graph, draw_options, node_names)
MapNodeNames ==
  /\ ~ret_node_names.called
  /\ ret_node_names' = map_node_names(num_nodes, node_names)
  /\ draw_options' = SetOption(draw_options, "vertex_text", ret_node_names')
  /\ UNCHANGED <<links_vars, node_vars, edge_vars, plot_vars, node_names, ret_set_nodes,
                 ret_nodes_names>>

\* graph_nodes.map_vertex_names(gt_graph, vertices, node_names)
MapVertexNames ==
  /\ ~ret_nodes_names.called
  /\ ret_nodes_names' = map_vertex_names(num_nodes, node_names)
  /\ UNCHANGED <<links_vars, node_vars, edge_vars, plot_vars, draw_options, node_names,
                 ret_set_nodes, ret_node_names>>

NextShape ==
  \/ SetNodes \/ MapNodeNames \/ MapVertexNames
  \/ MapVertexColorPlot \/ MapNodeColors \/ MapVertexSizePlot \/ MapNodeSizes
\* the name, colour and size mappers applied to a graph of num_nodes vertices
SpecShape == InitShape /\ [][NextShape]_vars

(***************************************************************************)
(* graph.py: plot.  An option dict is a function from keys to values; a    *)
(* value is written as Python prints it, "caller" is a value the caller    *)
(* supplied, and the outputs of the stages are named by the local that     *)
(* holds them ("v_color", "v_size", "e_weight", "e_pen_width",             *)
(* "v_text_prop", "sfdp_layout").  Dicts are objects: heap maps an object  *)
(* to its content, bind maps a local name to the object it refers to.      *)
(***************************************************************************)
default_layout_options ==
  [k \in {"vweight", "eweight", "pin", "K", "groups", "rmap", "init_step", "pos",
          "multilevel"} |-> "None"]
    @@ ("C" :> "0.2") @@ ("p" :> "2.0") @@ ("theta" :> "0.6") @@ ("max_level" :> "15")
    @@ ("r" :> "1.0") @@ ("kc" :> "10") @@ ("gamma" :> "0.1") @@ ("mu" :> "2.0")
    @@ ("kappa" :> "1.0") @@ ("R" :> "1") @@ ("cooling_step" :> "0.95")
    @@ ("adaptive_cooling" :> "True") @@ ("epsilon" :> "1e-2") @@ ("max_iter" :> "0")
    @@ ("coarse_method" :> "hybrid") @@ ("mivs_thres" :> "0.9") @@ ("ec_thres" :> "0.75")
    @@ ("weighted_coarse" :> "False") @@ ("verbose" :> "False")

default_draw_options ==
  [k \in {"pos", "vprops", "eprops", "vorder", "eorder", "fit_view_ink", "mplfig",
          "output", "bg_color", "antialias"} |-> "None"]
    @@ ("nodesfirst" :> "False") @@ ("output_size" :> "(600, 600)")
    @@ ("fit_view" :> "True") @@ ("adjust_aspect" :> "True") @@ ("ink_scale" :> "1")
    @@ ("inline" :> "True") @@ ("inline_scale" :> "2") @@ ("yflip" :> "True")
    @@ ("fmt" :> "auto")

\* d.update(other)
dict_update(d, other) == other @@ d
\* d[key] = value
dict_set(d, key, value) == (key :> value) @@ d
\* "if options:" is false for None and for the empty dict
truthy(options) == options.given /\ DOMAIN options.values # {}

\* the dict objects when plot is entered, and what the local names refer to
heap_on_entry(args) ==
  [layout_options_arg |-> args.layout_options.values,
   draw_options_arg |-> args.draw_options.values,
   default_layout_options |-> default_layout_options,
   default_draw_options |-> default_draw_options]
bind_on_entry ==
  [layout_options |-> "layout_options_arg", draw_options |-> "draw_options_arg",
   default_layout_options |-> "default_layout_options",
   default_draw_options |-> "default_draw_options"]

\* a variant of rebind that leaves the name on the object it referred to
rebind_kept(bind, name, target) == bind

\* "name = target": name now refers to the object target refers to
rebind(bind, name, target) == [bind EXCEPT ![name] = bind[target]]

\* "name.update(other)" when other is truthy
update_if(heap, bind, name, other) ==
  IF truthy(other) THEN [heap EXCEPT ![bind[name]] = dict_update(@, other.values)] ELSE heap

\* "name[key] = value" when the condition holds
store_if(cond, heap, bind, name, key, value) ==
  IF cond THEN [heap EXCEPT ![bind[name]] = dict_set(@, key, value)] ELSE heap

\* lines 193-196 and 221-224: the merges of the defaults with the caller's dicts
merged_heap(args) ==
  update_if(update_if(heap_on_entry(args), bind_on_entry,
                      "default_layout_options", args.layout_options),
            bind_on_entry, "default_draw_options", args.draw_options)
merged_bind ==
  rebind(rebind(bind_on_entry, "layout_options", "default_layout_options"),
         "draw_options", "default_draw_options")

\* lines 253-260: the conditional injections into draw_options
injected_heap(heap, bind, node_color, node_size, args) ==
  store_if(args.edge_weight_width,
    store_if(args.edge_weight_text,
      store_if(node_size.given,
        store_if(node_color.given, heap, bind, "draw_options", "vertex_fill_color", "v_color"),
        bind, "draw_options", "vertex_size", "v_size"),
      bind, "draw_options", "edge_text", "e_weight"),
    bind, "draw_options", "edge_pen_width", "e_pen_width")

\* lines 263-264: draw_options['pos'] and draw_options['vertex_text']
final_heap(heap, bind, v_text_prop) ==
  store_if(TRUE,
    store_if(TRUE, heap, bind, "draw_options", "pos", "sfdp_layout"),
    bind, "draw_options", "vertex_text", IF v_text_prop.given THEN "v_text_prop" ELSE "None")

NoPlot ==
  [called |-> FALSE, returned |-> FALSE, err |-> "", heap |-> <<>>, graph |-> NoGraph,
   layout_passed |-> None, draw_passed |-> None,
   gt |-> [directed |-> FALSE, num_vertices |-> 0, edges |-> <<>>],
   extract |-> NoExtract, nodes |-> NoNames, v_color |-> NotCalled, v_size |-> NotCalled,
   links |-> NoLinks]

\* the exception that leaves plot: the first stage that raised
first_error(color, size, links) ==
  IF ~color.returned THEN color.err
  ELSE IF ~size.returned THEN size.err
  ELSE links.err

\* graph.py: plot(graph, node_names, node_color, node_size, edge_weight_text,
\* edge_weight_width, edge_weight_text_format, edge_weight_width_scale,
\* layout_options, draw_options); order is the order in which
\* list(unique_edges) iterates.  gt.sfdp_layout and gt.graph_draw are called
\* with the dicts layout_passed and draw_passed when no stage raised.
plot(args, order) ==
  LET heap1 == merged_heap(args)
      bind == merged_bind
      ex == _extract_graph_components(args.graph, order)
      nodes == _set_nodes(ex.num_nodes, args.node_names)
      color == _map_vertex_color(nodes.vertices, args.node_color)
      size == IF color.returned THEN _map_vertex_size(nodes.vertices, args.node_size)
              ELSE NotCalled
      links == IF color.returned /\ size.returned
               THEN _set_links(nodes.vertices, ex.links, ex.weights,
                               args.edge_weight_text_format, args.edge_weight_width_scale)
               ELSE NoLinks
      ok == color.returned /\ size.returned /\ links.returned
      heap2 == IF ok
               THEN final_heap(injected_heap(heap1, bind, args.node_color, args.node_size, args),
                               bind, nodes.prop)
               ELSE heap1
  IN  [called |-> TRUE, returned |-> ok,
       err |-> IF ok THEN "" ELSE first_error(color, size, links),
       heap |-> heap2,
       graph |-> args.graph,
       layout_passed |-> IF ok THEN Some(heap2[bind["layout_options"]]) ELSE None,
       draw_passed |-> IF ok THEN Some(heap2[bind["draw_options"]]) ELSE None,
       gt |-> [directed |-> ~args.graph.undirected, num_vertices |-> nodes.vertices,
               edges |-> links.edges],
       extract |-> ex, nodes |-> nodes, v_color |-> color, v_size |-> size, links |-> links]

(***************************************************************************)
(* Calls of plot.                                                          *)
(***************************************************************************)
\* two or three edges on three nodes, one pair given in both directions
PlotGraphs ==
  {[num_nodes |-> Cardinality(Nodes), undirected |-> u, edge_index |-> ei,
    edge_attr |-> IF w THEN Some(index_weights(Len(ei))) ELSE None] :
     u \in BOOLEAN, w \in BOOLEAN,
     ei \in {<<<<0, 1>>, <<1, 2>>>>, <<<<0, 1>>, <<1, 0>>, <<1, 2>>>>}}
\* node_color: None, three ints, three floats, one value more than nodes
PlotColors ==
  {None} \cup {Some(y) : y \in {s \in ShapeSeqs :
     Len(s) = Cardinality(Nodes) \/ (Len(s) = Cardinality(Nodes) + 1 /\ s[1].float)}}
\* node_size: None, three floats, two ints
PlotSizes ==
  {None} \cup {Some(y) : y \in {s \in ShapeSeqs :
     (Len(s) = Cardinality(Nodes) /\ s[1].float) \/ (Len(s) = 2 /\ ~s[1].float)}}
\* layout_options: None, the empty dict, a key of sfdp_layout, 'pos'
LayoutArgs == {None, Some(<<>>), Some("C" :> "caller"), Some("pos" :> "caller")}
\* draw_options: None, keys of graph_draw, and keys the stages of plot write
DrawArgs ==
  {None, Some("output_size" :> "caller"), Some("pos" :> "caller"),
   Some("vertex_fill_color" :> "caller"), Some("vertex_text" :> "caller"),
   Some(("edge_pen_width" :> "caller") @@ ("bg_color" :> "caller"))}

PlotArgs ==
  {[graph |-> g, node_names |-> names, node_color |-> c, node_size |-> z,
    edge_weight_text |-> t, edge_weight_width |-> w,
    edge_weight_text_format |-> ".2f", edge_weight_width_scale |-> 1,
    layout_options |-> lo, draw_options |-> do] :
     g \in PlotGraphs, names \in NameArgs, c \in PlotColors, z \in PlotSizes,
     t \in BOOLEAN, w \in BOOLEAN, lo \in LayoutArgs, do \in DrawArgs}

InitPlot ==
  /\ plot_args \in PlotArgs
  /\ ret_plot = NoPlot
  /\ graph = plot_args.graph
  /\ set_order \in Orders(unique_edges(graph.edge_index))
  /\ arg_format = ".2f"
  /\ arg_scale = 1
  /\ ret_extract = NoExtract
  /\ ret_set_links = NoLinks
  /\ gt_graph = [data |-> NoGraph, num_vertices |-> 0, edges |-> <<>>]
  /\ ret_edge_text = NoEdgeMap
  /\ ret_edge_pen = NoEdgeMap
  /\ draw_options = <<>>
  /\ ret_links_text = NoEdgeMap
  /\ ret_links_pen = NoEdgeMap
  /\ IdleNode
  /\ IdleNames

\* one call of plot
Plot ==
  /\ ~ret_plot.called
  /\ ret_plot' = plot(plot_args, set_order)
  /\ UNCHANGED <<links_vars, node_vars, edge_vars, name_vars, draw_options, plot_args>>

NextPlot == Plot
SpecPlot == InitPlot /\ [][NextPlot]_vars

\* graph_links.map_edge_weight_text(gt_graph, draw_options, edge_weight_text_format)
GraphLinksMapEdgeWeightText ==
  /\ ~ret_links_text.called
  /\ ret_links_text' = graph_links_map_edge_weight_text(gt_graph, set_order, arg_format)
  /\ draw_options' = SetOption(draw_options, "edge_text", ret_links_text')
  /\ UNCHANGED <<node_vars, edge_vars, name_vars, plot_vars, ret_links_pen>>

\* graph_links.map_edge_pen_widths(gt_graph, draw_options, edge_weight_width_scale)
GraphLinksMapEdgePenWidths ==
  /\ ~ret_links_pen.called
  /\ ret_links_pen' = graph_links_map_edge_pen_widths(gt_graph, set_order, arg_scale)
  /\ draw_options' = SetOption(draw_options, "edge_pen_width", ret_links_pen')
  /\ UNCHANGED <<node_vars, edge_vars, name_vars, plot_vars, ret_links_text>>

NextEdgeMap ==
  \/ MapEdgeWeightText \/ MapEdgePenWidths
  \/ GraphLinksMapEdgeWeightText \/ GraphLinksMapEdgePenWidths
InitEdgeMap == InitEdge /\ graph \in StructGraphs /\ arg_scale = 1
\* the edge mappers of map_edge and of graph_links applied to one graph_tool
\* graph, in any order
SpecEdgeMap == InitEdgeMap /\ [][NextEdgeMap]_vars

(***************************************************************************)
(* The three mappers of map_node applied to one draw_options dict.         *)
(***************************************************************************)
\* the dict before the first mapper: empty, a key of graph_draw, or values
\* left under the mappers' keys by earlier calls
MapNodeDrawOptions ==
  {<<>>,
   "output_size" :> <<600, 600>>,
   ("vertex_text" :> <<"old">>) @@ ("output_size" :> <<600, 600>>),
   ("vertex_size" :> <<FromInt(1)>>) @@ ("vertex_fill_color" :> <<<<0, 0, 0, 255>>>>)}

InitMapNode ==
  /\ node_attr \in {None} \cup {Some(y) : y \in ShapeSeqs}
  /\ node_names \in NameArgs
  /\ num_nodes \in 1..MaxLen
  /\ arg_alpha \in Alphas
  /\ ret_plot_color = NotCalled
  /\ ret_node_color = NotCalled
  /\ ret_nodes_color = NotCalled
  /\ ret_plot_size = NotCalled
  /\ ret_node_size = NotCalled
  /\ ret_nodes_size = NotCalled
  /\ ret_set_nodes = NoNames
  /\ ret_node_names = NoNames
  /\ ret_nodes_names = NoNames
  /\ draw_options \in MapNodeDrawOptions
  /\ IdleEdge
  /\ IdlePlot

NextMapNode == MapNodeNames \/ MapNodeColors \/ MapNodeSizes
\* map_node_names, map_node_colors and map_node_sizes in any order
SpecMapNode == InitMapNode /\ [][NextMapNode]_vars

(***************************************************************************)
(* Properties of the node mappers.                                         *)
(***************************************************************************)
\* the attribute sequence as the caller wrote it
AttrVals == [i \in DOMAIN node_attr.values |-> node_attr.values[i].val]
AttrDistinct == Range(AttrVals)
AttrAnyFloat == \E i \in DOMAIN node_attr.values : node_attr.values[i].float
AttrConstant == node_attr.given /\ Cardinality(AttrDistinct) = 1
AttrNonConstant == node_attr.given /\ Cardinality(AttrDistinct) > 1
AttrMin == SetMin(AttrDistinct)
AttrMax == SetMax(AttrDistinct)
Zero == FromInt(0)
One == FromInt(1)

\* the red, green and blue components of a colour
RGB(c) == Take(c, 3)

\* a call that normalizes: a size mapper, or a colour mapper on its
\* continuous path
Normalizes(r) == r.called /\ r.path \in {"size", "continuous"}

\* r normalized every element of the sequence, as the claim C3 describes
NormalizedAsSpecified(r) ==
  /\ r.returned
  /\ Len(r.normalized) = Len(AttrVals)
  /\ \A i \in DOMAIN AttrVals :
       /\ IsFinite(r.normalized[i])
       /\ RatLe(Zero, r.normalized[i]) /\ RatLe(r.normalized[i], One)
       /\ r.normalized[i] = Rat(AttrVals[i] - AttrMin, AttrMax - AttrMin)
       /\ AttrVals[i] = AttrMax => r.normalized[i] = One
       /\ AttrVals[i] = AttrMin => r.normalized[i] = Zero

\* r mapped every element of a constant sequence to normalized 0
NormalizedToZero(r) ==
  /\ r.returned
  /\ Len(r.normalized) = Len(AttrVals)
  /\ \A i \in DOMAIN AttrVals : r.normalized[i] = Zero

\* r gave every element the size min_size
AllSizes(r, min_size) ==
  /\ r.returned /\ r.prop.given
  /\ Len(r.prop.values) = Len(AttrVals)
  /\ \A i \in DOMAIN AttrVals : r.prop.values[i] = FromInt(min_size)

\* C2 (as claimed): for a constant sequence the normalization of the size
\* and colour mappers yields 0 for every element, the size mappers yield
\* min_size for every element, and no call raises or stores a NaN.
C2_ConstantSequenceDefined ==
  AttrConstant =>
    /\ Normalizes(ret_plot_size) =>
         NormalizedToZero(ret_plot_size) /\ AllSizes(ret_plot_size, plot_min_size)
    /\ Normalizes(ret_node_size) =>
         NormalizedToZero(ret_node_size) /\ AllSizes(ret_node_size, node_min_size)
    /\ Normalizes(ret_plot_color) => NormalizedToZero(ret_plot_color)
    /\ Normalizes(ret_node_color) => NormalizedToZero(ret_node_color)

\* C3: for a non-constant sequence v, every normalizing call of
\* _map_vertex_color, map_node_colors, _map_vertex_size and map_node_sizes
\* returns with one normalized value per element, each in [0,1] and equal to
\* (v[i] - min) / (max - min), 1 at the maximum and 0 at the minimum.
C3_NormalizedRange ==
  AttrNonConstant =>
    /\ Normalizes(ret_plot_color) => NormalizedAsSpecified(ret_plot_color)
    /\ Normalizes(ret_node_color) => NormalizedAsSpecified(ret_node_color)
    /\ Normalizes(ret_plot_size) => NormalizedAsSpecified(ret_plot_size)
    /\ Normalizes(ret_node_size) => NormalizedAsSpecified(ret_node_size)

\* a non-constant sequence with a value strictly between its extremes has
\* been normalized by a colour mapper and by both size mappers
C3_Witness ==
  /\ AttrNonConstant
  /\ ret_node_color.returned /\ ret_node_color.path = "continuous"
  /\ ret_plot_size.returned /\ ret_node_size.returned
  /\ \E i \in DOMAIN AttrVals : ret_node_size.normalized[i] = Rat(1, 2)
  /\ AttrMin < 0

\* the classification the claim C4 gives for the caller's sequence
ClaimedPath ==
  IF AttrAnyFloat \/ Cardinality(AttrDistinct) > 10 THEN "continuous" ELSE "categorical"

\* C4: every colour mapper takes the continuous path iff some element is a
\* float or there are more than 10 distinct values, the categorical path
\* otherwise; so all variants classify one sequence the same way.
C4_Classification ==
  node_attr.given =>
    /\ ret_plot_color.called => ret_plot_color.path = ClaimedPath
    /\ ret_node_color.called => ret_node_color.path = ClaimedPath
    /\ ret_nodes_color.called => ret_nodes_color.path = ClaimedPath
    /\ (ret_plot_color.called /\ ret_node_color.called)
         => ret_plot_color.path = ret_node_color.path

\* a sequence of ints with a float among them, after the first element, has
\* been classified continuous by the plot and the map_node variant
C4_Witness ==
  /\ node_attr.given /\ Len(node_attr.values) > 1
  /\ ~node_attr.values[1].float /\ AttrAnyFloat
  /\ Cardinality(AttrDistinct) <= 10
  /\ ret_plot_color.called /\ ret_plot_color.path = "continuous"
  /\ ret_node_color.called /\ ret_node_color.path = "continuous"

\* the palette entry the claim C5 gives to value v: the entry at the sorted
\* rank of v in the palette for the number of distinct values
RankColor(v) ==
  hex2color(ColorsDict[Cardinality(AttrDistinct)][IndexOf(SortedSeq(AttrDistinct), v)])

ColoredByRank(r) ==
  /\ r.returned /\ r.prop.given
  /\ Len(r.prop.values) = Len(AttrVals)
  /\ \A i \in DOMAIN AttrVals : RGB(r.prop.values[i]) = RankColor(AttrVals[i])

Categorical(r) == r.called /\ r.path = "categorical"

\* C5 (as claimed): on the categorical path every variant gives the value
\* of sorted rank r palette entry r, whatever the values are.
C5_PaletteByRank ==
  /\ Categorical(ret_plot_color) => ColoredByRank(ret_plot_color)
  /\ Categorical(ret_node_color) => ColoredByRank(ret_node_color)
  /\ Categorical(ret_nodes_color) => ColoredByRank(ret_nodes_color)

OneColorPerCategory(r) ==
  /\ r.returned /\ r.prop.given
  /\ Len(r.prop.values) = Len(AttrVals)
  /\ \A i, j \in DOMAIN AttrVals :
       (r.prop.values[i] = r.prop.values[j]) <=> (AttrVals[i] = AttrVals[j])
  /\ Cardinality(Range(r.prop.values)) = Cardinality(AttrDistinct)

\* C6 (as claimed): categorical mapping of k distinct categories uses
\* exactly k colours, two elements sharing a colour iff they share a value.
C6_OneColorPerCategory ==
  /\ Categorical(ret_plot_color) => OneColorPerCategory(ret_plot_color)
  /\ Categorical(ret_node_color) => OneColorPerCategory(ret_node_color)

ManyCategories == node_attr.given /\ Cardinality(AttrDistinct) >= 11

\* C7 (as claimed): 11 or more distinct categories raise
\* PaletteExhaustionError; no colours are produced by another path.
C7_PaletteExhaustion ==
  ManyCategories =>
    /\ ret_plot_color.called =>
         ~ret_plot_color.returned /\ ret_plot_color.err = "PaletteExhaustionError"
    /\ ret_node_color.called =>
         ~ret_node_color.returned /\ ret_node_color.err = "PaletteExhaustionError"

\* r coloured every element from the colormap at its normalized position
ColoredByColormap(r, a) ==
  /\ r.returned /\ r.err = "" /\ r.path = "continuous" /\ r.prop.given
  /\ Len(r.prop.values) = Len(AttrVals)
  /\ \A i \in DOMAIN AttrVals :
       LET pos == (256 * (AttrVals[i] - AttrMin)) \div (AttrMax - AttrMin)
           g == IF pos > 255 THEN 255 ELSE pos
       IN  r.prop.values[i] = <<255, g, 255 - g, a>>

\* C7 (amended): a sequence with 11 or more distinct values never reaches
\* the palette in _map_vertex_color or map_node_colors: it is classified
\* continuous, no error is raised, and every element gets the colormap
\* colour of its normalized value.
C7_ManyCategoriesContinuous ==
  ManyCategories =>
    /\ ret_plot_color.called => ColoredByColormap(ret_plot_color, 255)
    /\ ret_node_color.called => ColoredByColormap(ret_node_color, arg_alpha)

\* 11 distinct ints, none a float, have been coloured by both variants
C7_Witness ==
  /\ ManyCategories /\ ~AttrAnyFloat
  /\ ret_plot_color.returned /\ ret_node_color.returned

\* r sized every element in the 10..50 range of the claim C8
SizedTenToFifty(r) ==
  /\ r.returned /\ r.prop.given
  /\ Len(r.prop.values) = Len(AttrVals)
  /\ \A i \in DOMAIN AttrVals :
       LET size == r.prop.values[i]
       IN  /\ size = RatAdd(FromInt(10),
                       RatMul(Rat(AttrVals[i] - AttrMin, AttrMax - AttrMin), FromInt(40)))
           /\ RatLe(FromInt(10), size) /\ RatLe(size, FromInt(50))
           /\ AttrVals[i] = AttrMin => size = FromInt(10)
           /\ AttrVals[i] = AttrMax => size = FromInt(50)

\* C8 (as claimed): _map_vertex_size, map_node_sizes and map_vertex_size
\* each map a non-constant sequence to 10 + normalized * 40.
C8_SizeRange ==
  AttrNonConstant =>
    /\ ret_plot_size.called => SizedTenToFifty(ret_plot_size)
    /\ ret_node_size.called => SizedTenToFifty(ret_node_size)
    /\ ret_nodes_size.called => SizedTenToFifty(ret_nodes_size)

(***************************************************************************)
(* Properties of edge extraction and of the edge mappers.                  *)
(***************************************************************************)
\* the unordered pairs {a, b} of a list of edges
UnorderedPairs(edges) == {{edges[i][1], edges[i][2]} : i \in DOMAIN edges}

\* links holds each unordered pair of edge_index exactly once
Deduplicated(links) ==
  /\ UnorderedPairs(links) = UnorderedPairs(graph.edge_index)
  /\ Len(links) = Cardinality(UnorderedPairs(graph.edge_index))

\* the links the claim C1 describes
ExtractedAsClaimed(links) ==
  IF graph.undirected THEN Deduplicated(links) ELSE links = graph.edge_index

\* C1 (as claimed): extraction de-duplicates by unordered pair exactly when
\* the graph is undirected; a directed graph keeps every pair, in order.
C1_DedupIffUndirected ==
  /\ ret_extract.called => ExtractedAsClaimed(ret_extract.links)
  /\ ret_edge_text.called => ExtractedAsClaimed(ret_edge_text.links)
  /\ ret_edge_pen.called => ExtractedAsClaimed(ret_edge_pen.links)

\* format(w, text_format) as Python prints it, for the weights of the model
PythonFormat(w, text_format) ==
  IF text_format = ".2f"
  THEN CASE w = Rat(0, 1) -> "0.00" [] w = Rat(1, 8) -> "0.12" [] w = Rat(1, 1) -> "1.00"
         [] w = Rat(2, 1) -> "2.00" [] w = Rat(3, 1) -> "3.00" [] w = Rat(4, 1) -> "4.00"
         [] OTHER -> "?"
  ELSE CASE w = Rat(0, 1) -> "0.0" [] w = Rat(1, 8) -> "0.1" [] w = Rat(1, 1) -> "1.0"
         [] w = Rat(2, 1) -> "2.0" [] w = Rat(3, 1) -> "3.0" [] w = Rat(4, 1) -> "4.0"
         [] OTHER -> "?"

MaxWeight(weights) ==
  CHOOSE m \in Range(weights) : \A i \in DOMAIN weights : RatLe(weights[i], m)
PositiveMax(weights) == MaxWeight(weights).num > 0
AllZero(weights) == \A i \in DOMAIN weights : weights[i] = Zero

\* the entries of a property map that belong to the last n edges added
LastEntries(prop, n) == [i \in 1..n |-> prop[Len(prop) - n + i]]

\* text holds the formatted weight of every link
TextAsClaimed(text, n, weights) ==
  /\ Len(text) = n
  /\ \A i \in 1..n : text[i] = PythonFormat(weights[i], arg_format)
  /\ (arg_format = ".2f" /\ n = 3 /\ Take(weights, 3) = <<Rat(1, 1), Rat(2, 1), Rat(4, 1)>>)
       => text = <<"1.00", "2.00", "4.00">>

\* pen holds (weights[i] / max(weights)) * width_scale for every link
PenAsClaimed(pen, n, weights) ==
  /\ Len(pen) = n
  /\ \A i \in 1..n :
       /\ IsFinite(pen[i])
       /\ pen[i].num * weights[i].den * MaxWeight(weights).num
            = pen[i].den * weights[i].num * MaxWeight(weights).den * arg_scale
       /\ weights[i] = MaxWeight(weights) => pen[i] = FromInt(arg_scale)
  /\ (arg_scale = 5 /\ n = 3 /\ Take(weights, 3) = <<Rat(1, 1), Rat(2, 1), Rat(4, 1)>>)
       => pen = <<Rat(5, 4), Rat(5, 2), Rat(5, 1)>>

\* C9: for weights with a positive maximum, _set_links and the map_edge
\* mappers give edge i the text format(weights[i], text_format) and the pen
\* width (weights[i] / max(weights)) * width_scale, the heaviest edge getting
\* width_scale; [1.0, 2.0, 4.0] with scale 5 and ".2f" give "1.00", "2.00",
\* "4.00" and 1.25, 2.5, 5.0.
C9_TextAndPenWidth ==
  /\ (ret_set_links.called /\ PositiveMax(ret_extract.weights)) =>
       /\ ret_set_links.returned
       /\ TextAsClaimed(ret_set_links.e_weight, Len(ret_extract.links), ret_extract.weights)
       /\ PenAsClaimed(ret_set_links.e_pen_width, Len(ret_extract.links), ret_extract.weights)
  /\ (ret_edge_text.called /\ PositiveMax(ret_edge_text.weights)) =>
       /\ ret_edge_text.returned
       /\ TextAsClaimed(LastEntries(ret_edge_text.prop.values, Len(ret_edge_text.links)),
                        Len(ret_edge_text.links), ret_edge_text.weights)
  /\ (ret_edge_pen.called /\ PositiveMax(ret_edge_pen.weights)) =>
       /\ ret_edge_pen.returned
       /\ PenAsClaimed(LastEntries(ret_edge_pen.prop.values, Len(ret_edge_pen.links)),
                       Len(ret_edge_pen.links), ret_edge_pen.weights)

\* the weights 1.0, 2.0, 4.0 have been mapped with scale 5 and ".2f" by
\* _set_links and by both map_edge mappers
C9_Witness ==
  /\ arg_scale = 5 /\ arg_format = ".2f"
  /\ graph.edge_attr = Some(<<Rat(1, 1), Rat(2, 1), Rat(4, 1)>>)
  /\ ret_set_links.returned
  /\ ret_set_links.e_pen_width = <<Rat(5, 4), Rat(5, 2), Rat(5, 1)>>
  /\ ret_edge_text.returned /\ ret_edge_pen.returned

\* pen is 0 for every link
PenAllZero(pen, n) == Len(pen) = n /\ \A i \in 1..n : pen[i] = Zero

\* C10 (as claimed): when every weight is zero, pen-width scaling raises an
\* error or gives every edge the pen width 0; no NaN or Inf is stored.
C10_ZeroWeights ==
  /\ (ret_set_links.called /\ AllZero(ret_extract.weights)) =>
       /\ ~ret_set_links.returned
            \/ PenAllZero(ret_set_links.e_pen_width, Len(ret_extract.links))
       /\ \A e \in DOMAIN ret_set_links.e_pen_width : IsFinite(ret_set_links.e_pen_width[e])
  /\ (ret_edge_pen.called /\ AllZero(ret_edge_pen.weights)) =>
       /\ ~ret_edge_pen.returned
            \/ PenAllZero(ret_edge_pen.prop.values, Len(ret_edge_pen.links))
       /\ \A e \in DOMAIN ret_edge_pen.prop.values : IsFinite(ret_edge_pen.prop.values[e])

\* every entry of a property sequence is v
AllEqual(prop, n, v) == Len(prop) = n /\ \A i \in 1..n : prop[i] = v

\* C11: a graph without edge_attr gets the weight 1.0 for every extracted
\* link, one weight per link after de-duplication, so every edge has the pen
\* width width_scale and, under the format ".2f", the text "1.00".
C11_DefaultWeights ==
  /\ (ret_extract.called /\ ~graph.edge_attr.given) =>
       AllEqual(ret_extract.weights, Len(ret_extract.links), One)
  /\ (ret_set_links.called /\ ~graph.edge_attr.given) =>
       /\ ret_set_links.returned
       /\ AllEqual(ret_set_links.e_pen_width, Len(ret_extract.links), FromInt(arg_scale))
       /\ arg_format = ".2f" =>
            AllEqual(ret_set_links.e_weight, Len(ret_extract.links), "1.00")
  /\ (ret_edge_text.called /\ ~graph.edge_attr.given) =>
       /\ ret_edge_text.returned
       /\ AllEqual(ret_edge_text.weights, Len(ret_edge_text.links), One)
       /\ arg_format = ".2f" =>
            AllEqual(LastEntries(ret_edge_text.prop.values, Len(ret_edge_text.links)),
                     Len(ret_edge_text.links), "1.00")
  /\ (ret_edge_pen.called /\ ~graph.edge_attr.given) =>
       /\ ret_edge_pen.returned
       /\ AllEqual(ret_edge_pen.weights, Len(ret_edge_pen.links), One)
       /\ AllEqual(LastEntries(ret_edge_pen.prop.values, Len(ret_edge_pen.links)),
                   Len(ret_edge_pen.links), FromInt(arg_scale))

\* a graph without edge_attr whose edge_index holds a pair in both directions
\* has been extracted to fewer links and drawn with scale 5
C11_Witness ==
  /\ ~graph.edge_attr.given /\ arg_scale = 5
  /\ Len(graph.edge_index) = 3
  /\ ret_extract.called /\ Len(ret_extract.links) = 2
  /\ ret_set_links.returned
  /\ ret_set_links.e_pen_width = <<FromInt(5), FromInt(5)>>
  /\ ret_set_links.e_weight = <<"1.00", "1.00">>
  /\ ret_edge_text.returned /\ ret_edge_pen.returned

\* the weights edge_attr gives to the edges of edge_index that join the same
\* two nodes as link
WeightsGiven(link) ==
  {graph.edge_attr.values[j] : j \in {k \in DOMAIN graph.edge_index :
     sorted_edge(graph.edge_index[k]) = sorted_edge(link)}}

\* one weight per link, and weights[i] is a weight the graph gave to link i
WeightsAligned(links, weights) ==
  /\ Len(weights) = Len(links)
  /\ \A i \in DOMAIN links : i \in DOMAIN weights /\ weights[i] \in WeightsGiven(links[i])

\* C12 (as claimed): after extraction there is one weight per extracted link
\* and weights[i] is the weight the input graph gave to link i, also when the
\* graph carries edge_attr and de-duplication removed or reordered edges; the
\* edge property maps hold one entry per edge.
C12_OneWeightPerLink ==
  /\ (ret_extract.called /\ graph.edge_attr.given) =>
       WeightsAligned(ret_extract.links, ret_extract.weights)
  /\ (ret_edge_text.called /\ graph.edge_attr.given) =>
       WeightsAligned(ret_edge_text.links, ret_edge_text.weights)
  /\ (ret_edge_pen.called /\ graph.edge_attr.given) =>
       WeightsAligned(ret_edge_pen.links, ret_edge_pen.weights)
  /\ ret_set_links.returned =>
       /\ Len(ret_set_links.e_weight) = Len(ret_set_links.edges)
       /\ Len(ret_set_links.e_pen_width) = Len(ret_set_links.edges)

\* the attribute sequence of a mapper has a length other than the node count
Mismatch(attr) == attr.given /\ Len(attr.values) # num_nodes

\* the mapper raised ShapeMismatchError and had assigned nothing
RejectedUnassigned(r) ==
  /\ ~r.returned
  /\ r.err = "ShapeMismatchError"
  /\ r.prop.given => r.prop.values = <<>>

\* C13 (as claimed): names, colours or sizes whose length differs from the
\* node count raise ShapeMismatchError before any per-index assignment: no
\* property map holds a partial assignment and no configuration key has been
\* written; the sequence is never truncated or padded.
C13_ShapeMismatchRejected ==
  /\ (ret_set_nodes.called /\ Mismatch(node_names)) =>
       RejectedUnassigned(ret_set_nodes) /\ ret_set_nodes.written = 0
  /\ (ret_node_names.called /\ Mismatch(node_names)) =>
       /\ RejectedUnassigned(ret_node_names) /\ ret_node_names.written = 0
       /\ "vertex_text" \notin DOMAIN draw_options
  /\ (ret_nodes_names.called /\ Mismatch(node_names)) =>
       RejectedUnassigned(ret_nodes_names) /\ ret_nodes_names.written = 0
  /\ (ret_plot_color.called /\ Mismatch(node_attr)) => RejectedUnassigned(ret_plot_color)
  /\ (ret_plot_size.called /\ Mismatch(node_attr)) => RejectedUnassigned(ret_plot_size)
  /\ (ret_node_color.called /\ Mismatch(node_attr)) =>
       /\ RejectedUnassigned(ret_node_color)
       /\ "vertex_fill_color" \notin DOMAIN draw_options
  /\ (ret_node_size.called /\ Mismatch(node_attr)) =>
       /\ RejectedUnassigned(ret_node_size)
       /\ "vertex_size" \notin DOMAIN draw_options

(***************************************************************************)
(* Properties of plot.                                                     *)
(***************************************************************************)
\* the draw options after the merge of the defaults with the caller's dict
MergedDrawOptions == dict_update(default_draw_options, plot_args.draw_options.values)
MergedLayoutOptions == dict_update(default_layout_options, plot_args.layout_options.values)

\* key holds in passed what it held after the merge, or is absent from both
LeftAsMerged(passed, merged, key) ==
  /\ key \in DOMAIN passed <=> key \in DOMAIN merged
  /\ key \in DOMAIN merged => passed[key] = merged[key]

\* C14 (as claimed): without node names no label mapping is produced and the
\* render configuration gets no vertex-text entry from the label mapper;
\* with names, names[i] is the label of node i for every node.
C14_LabelsSkippedOrPositional ==
  ret_plot.returned =>
    /\ ~plot_args.node_names.given =>
         /\ ~ret_plot.nodes.prop.given
         /\ LeftAsMerged(ret_plot.draw_passed.values, MergedDrawOptions, "vertex_text")
    /\ (plot_args.node_names.given
          /\ Len(plot_args.node_names.values) = plot_args.graph.num_nodes) =>
         /\ ret_plot.nodes.prop = Some(plot_args.node_names.values)
         /\ ret_plot.draw_passed.values["vertex_text"] = "v_text_prop"

\* C15 (as claimed): in the dicts plot passes to the layout and draw calls,
\* every key the caller supplied in layout_options or draw_options holds the
\* caller's value, 'pos' and the keys a mapping stage writes included, and
\* every other documented key that no stage writes holds its default.
C15_CallerValueWins ==
  ret_plot.returned =>
    /\ \A k \in DOMAIN plot_args.layout_options.values :
         ret_plot.layout_passed.values[k] = plot_args.layout_options.values[k]
    /\ \A k \in DOMAIN default_layout_options \ DOMAIN plot_args.layout_options.values :
         ret_plot.layout_passed.values[k] = default_layout_options[k]
    /\ \A k \in DOMAIN plot_args.draw_options.values :
         ret_plot.draw_passed.values[k] = plot_args.draw_options.values[k]
    /\ \A k \in (DOMAIN default_draw_options \ DOMAIN plot_args.draw_options.values) \ {"pos"} :
         ret_plot.draw_passed.values[k] = default_draw_options[k]

\* key holds the output of its stage when requested, and is left as merged
\* when not
InjectedIff(requested, key, output) ==
  IF requested
  THEN key \in DOMAIN ret_plot.draw_passed.values
         /\ ret_plot.draw_passed.values[key] = output
  ELSE LeftAsMerged(ret_plot.draw_passed.values, MergedDrawOptions, key)

\* C16 (as claimed): plot injects a mapping output only when it was
\* requested: vertex colour iff node_color was given, vertex size iff
\* node_size, vertex text iff node_names, edge text iff edge_weight_text, edge
\* pen width iff edge_weight_width; a key not requested keeps its merged value.
C16_InjectedIffRequested ==
  ret_plot.returned =>
    /\ InjectedIff(plot_args.node_color.given, "vertex_fill_color", "v_color")
    /\ InjectedIff(plot_args.node_size.given, "vertex_size", "v_size")
    /\ InjectedIff(plot_args.node_names.given /\ plot_args.node_names.values # <<>>,
                   "vertex_text", "v_text_prop")
    /\ InjectedIff(plot_args.edge_weight_text, "edge_text", "e_weight")
    /\ InjectedIff(plot_args.edge_weight_width, "edge_pen_width", "e_pen_width")

\* C18: after a call of plot, returned or raised, the input graph and the
\* caller's layout_options and draw_options dicts hold the values they held
\* before the call, whichever mappings were requested.
C18_InputsReadOnly ==
  ret_plot.called =>
    /\ ret_plot.graph = plot_args.graph
    /\ ret_plot.heap.layout_options_arg = plot_args.layout_options.values
    /\ ret_plot.heap.draw_options_arg = plot_args.draw_options.values

\* plot has drawn with a caller dict that names a key a stage writes, and
\* with that stage requested
C18_Witness ==
  /\ ret_plot.returned
  /\ plot_args.node_color.given
  /\ plot_args.draw_options = Some("vertex_fill_color" :> "caller")
  /\ plot_args.layout_options = Some("pos" :> "caller")
  /\ ret_plot.draw_passed.values["vertex_fill_color"] = "v_color"
  /\ ret_plot.layout_passed.values["pos"] = "caller"
  /\ ret_plot.heap.draw_options_arg = ("vertex_fill_color" :> "caller")

\* r holds one RGBA 4-tuple per element of the sequence, each with that alpha
RGBAPerElement(r, alpha) ==
  /\ r.returned /\ r.prop.given
  /\ Len(r.prop.values) = Len(AttrVals)
  /\ \A i \in DOMAIN r.prop.values :
       Len(r.prop.values[i]) = 4 /\ r.prop.values[i][4] = alpha

\* C17 (as claimed): every colour mapper outputs one RGBA 4-tuple per input
\* element on the continuous and on the categorical path, with the configured
\* alpha (1.0 where the variant has no alpha argument) as fourth component.
C17_RGBAPerElement ==
  node_attr.given =>
    /\ ret_plot_color.called => RGBAPerElement(ret_plot_color, 255)
    /\ ret_node_color.called => RGBAPerElement(ret_node_color, arg_alpha)
    /\ ret_nodes_color.called => RGBAPerElement(ret_nodes_color, 255)

\* after both mappers the graph has one edge per link and each property map
\* has an entry for every edge
OneEdgePerLink(text, pen) ==
  /\ text.returned /\ pen.returned
  /\ text.links = pen.links
  /\ Len(gt_graph.edges) = Len(text.links)
  /\ \A e \in DOMAIN gt_graph.edges : gt_graph.edges[e] = text.links[e]
  /\ Len(text.prop.values) = Len(gt_graph.edges)
  /\ Len(pen.prop.values) = Len(gt_graph.edges)

\* C19 (as claimed): after map_edge_weight_text and map_edge_pen_widths have
\* both been applied to one graph_tool graph, in either order, the graph has
\* exactly one edge per extracted link and every edge carries a text entry
\* and a pen-width entry.
C19_OneEdgePerLink ==
  /\ (ret_edge_text.called /\ ret_edge_pen.called /\ ~ret_links_text.called
        /\ ~ret_links_pen.called) => OneEdgePerLink(ret_edge_text, ret_edge_pen)
  /\ (ret_links_text.called /\ ret_links_pen.called /\ ~ret_edge_text.called
        /\ ~ret_edge_pen.called) => OneEdgePerLink(ret_links_text, ret_links_pen)

\* this step changed at most the entry key of draw_options, and nothing when
\* the attribute argument is None
WritesOnly(key, attr) ==
  /\ DOMAIN draw_options' \in {DOMAIN draw_options, DOMAIN draw_options \cup {key}}
  /\ \A k \in DOMAIN draw_options \ {key} : draw_options'[k] = draw_options[k]
  /\ ~attr.given => draw_options' = draw_options

\* a step of one of the three mappers of map_node writes only its own key
MapNodeStep ==
  /\ ret_node_names' # ret_node_names => WritesOnly("vertex_text", node_names)
  /\ ret_node_color' # ret_node_color => WritesOnly("vertex_fill_color", node_attr)
  /\ ret_node_size' # ret_node_size => WritesOnly("vertex_size", node_attr)

\* the entry of a mapper that returned a property map is that map
HoldsOutput(key, r) ==
  (r.returned /\ r.prop.given) =>
     key \in DOMAIN draw_options /\ draw_options[key] = r.prop.values

\* C20: each mapper of map_node writes at most its own key of draw_options
\* ('vertex_text', 'vertex_fill_color', 'vertex_size'), leaves every other
\* key unchanged and writes nothing when its argument is None; so after the
\* three mappers, in any order, each key holds the output of its own mapper.
C20_OwnKeyOnly ==
  /\ [][MapNodeStep]_vars
  /\ [](/\ HoldsOutput("vertex_text", ret_node_names)
        /\ HoldsOutput("vertex_fill_color", ret_node_color)
        /\ HoldsOutput("vertex_size", ret_node_size))

\* the three mappers have written their keys into a dict that held another
\* key before
C20_Witness ==
  /\ node_attr.given /\ node_names.given
  /\ ret_node_names.returned /\ ret_node_color.returned /\ ret_node_size.returned
  /\ DOMAIN draw_options =
       {"output_size", "vertex_text", "vertex_fill_color", "vertex_size"}
  /\ draw_options["output_size"] = <<600, 600>>
  /\ draw_options["vertex_text"] = ret_node_names.prop.values

\* every entry of a per-vertex property map belongs to one of the vertices
WithinVertices(r, vertices) == r.prop.given => Len(r.prop.values) <= vertices

\* C21 (as claimed): the graph plot hands to the layout and draw calls has
\* num_nodes vertices, is undirected iff the input graph is, and has one edge
\* per extracted link, between the vertices the link names; every name,
\* colour and size write made while building it addresses a vertex that had
\* already been added.
C21_GraphBuiltAsExtracted ==
  /\ ret_plot.returned =>
       /\ ret_plot.gt.num_vertices = plot_args.graph.num_nodes
       /\ ret_plot.gt.directed = ~plot_args.graph.undirected
       /\ ret_plot.gt.edges = ret_plot.extract.links
       /\ \A e \in DOMAIN ret_plot.gt.edges :
            ~bad_vertex(ret_plot.gt.num_vertices, ret_plot.gt.edges[e])
  /\ ret_plot.called =>
       /\ ret_plot.nodes.prop.given => ret_plot.nodes.written <= ret_plot.nodes.present
       /\ WithinVertices(ret_plot.v_color, ret_plot.gt.num_vertices)
       /\ WithinVertices(ret_plot.v_size, ret_plot.gt.num_vertices)

====
